---------------------------- MODULE Spec2Model ----------------------------
(***************************************************************************)
(* Model of mmi_2x2_gds_v1.py: the parameterised 2x2 MMI cell builder      *)
(* (mmi_2x2), the measurement test circuit (test_circuit_mmi) and the DOE  *)
(* sweep driver (generate_doe_gds).                                        *)
(*                                                                         *)
(* Lengths are exact fixed-point integers: one micrometre is Unit steps.   *)
(* Unit is divisible by 100 (two-decimal file names are exact), by 4 (the  *)
(* halvings width_taper/2 and pitch/2 of the enumerated inputs are exact)  *)
(* and by 1..6 (the linspace steps of the enumerated grids are exact).     *)
(***************************************************************************)
EXTENDS Integers, Sequences, FiniteSets, TLC

Unit == 12 * 100

\* A length given in hundredths of a micrometre (0.20 um is Centi(20)).
Centi(h) == h * (Unit \div 100)

\* Python's x / 2 on the enumerated (even) fixed-point values.
Half(x) == x \div 2

-----------------------------------------------------------------------------
(* Bounds and input sets                                                   *)

MaxNGrid == 10
MaxRuns == 2

WidthMmiValues == {Centi(300), Centi(200), Centi(20)}
LengthMmiValues == {Centi(3000), Centi(2000)}
InputWidthValues == {Centi(50), Centi(100)}
OutputWidthValues == {Centi(50), Centi(80)}
TaperLengthValues == {Centi(1000), Centi(500)}
GapMmiValues == {Centi(20), Centi(40), Centi(300)}
LayerValues == {<<1, 0>>, <<2, 0>>}
FiberPitchValues == {Centi(12700), Centi(25000), 0, -Centi(12700)}
NGridValues == 0..MaxNGrid
OutputDirValues == {"mmi_doe_gds", "doe_b"}

-----------------------------------------------------------------------------
(* Defaults of mmi_2x2 (lines 24-27)                                       *)

default_width_mmi == Centi(300)
default_length_mmi == Centi(3000)
default_input_width == Centi(50)
default_output_width == Centi(50)
default_taper_length == Centi(1000)
default_gap_mmi == Centi(20)
default_layer == <<1, 0>>

-----------------------------------------------------------------------------
(* Geometry primitives used by the script                                  *)

\* gf.components.taper(length, width1, width2, layer): a reference placed at
\* the origin; port o1 (width1) at the origin, port o2 (width2) at (length, 0),
\* the body centred on the reference's y.
taper(length, width1, width2, layer) ==
    [length |-> length, width1 |-> width1, width2 |-> width2,
     layer |-> layer, origin |-> <<0, 0>>]

\* gf.components.rectangle(size, centered=False, layer): lower-left corner at
\* the reference's origin.
rectangle(size, layer) ==
    [size |-> size, layer |-> layer, origin |-> <<0, 0>>]

\* ref.move((dx, dy))
move(ref, d) ==
    [ref EXCEPT !.origin = <<@[1] + d[1], @[2] + d[2]>>]

\* ref.ports["o1"] / ref.ports["o2"] of a placed taper
taper_port(ref, pname) ==
    IF pname = "o1"
    THEN [name |-> "o1", center |-> ref.origin, width |-> ref.width1,
          orientation |-> 180, layer |-> ref.layer]
    ELSE [name |-> "o2",
          center |-> <<ref.origin[1] + ref.length, ref.origin[2]>>,
          width |-> ref.width2, orientation |-> 0, layer |-> ref.layer]

\* c.add_port(name, port=p): a copy of p under a new name
add_port(name, p) == [p EXCEPT !.name = name]

-----------------------------------------------------------------------------
(* mmi_2x2                                                                 *)

\* A slip in line 29: the gap taken off after the halving.
width_taper_gap_after_half(width_mmi, gap_mmi) == Half(width_mmi) - gap_mmi

width_taper(width_mmi, gap_mmi) == Half(width_mmi - gap_mmi)

\* A slip in line 30: the arms spaced by the taper width alone.
pitch_without_gap(width_mmi, gap_mmi) == width_taper(width_mmi, gap_mmi)

pitch(width_mmi, gap_mmi) == gap_mmi + width_taper(width_mmi, gap_mmi)

mmi_2x2(width_mmi, length_mmi, input_width, output_width, taper_length, gap_mmi, layer) ==
    LET wt == width_taper(width_mmi, gap_mmi)
        p == pitch(width_mmi, gap_mmi)
        taper_in1 == move(taper(taper_length, input_width, wt, layer),
                          <<0, -Half(p)>>)
        taper_in2 == move(taper(taper_length, input_width, wt, layer),
                          <<0, Half(p)>>)
        mmi_rect == move(rectangle(<<length_mmi, width_mmi>>, layer),
                         <<taper_length, -Half(width_mmi)>>)
        taper_out1 == move(taper(taper_length, wt, output_width, layer),
                           <<length_mmi + taper_length, -Half(p)>>)
        taper_out2 == move(taper(taper_length, wt, output_width, layer),
                           <<length_mmi + taper_length, Half(p)>>)
    IN  [name |-> "MMI_2x2",
         taper_in1 |-> taper_in1, taper_in2 |-> taper_in2,
         mmi_rect |-> mmi_rect,
         taper_out1 |-> taper_out1, taper_out2 |-> taper_out2,
         ports |-> [n \in {"in1", "in2", "out1", "out2"} |->
                      CASE n = "in1" -> add_port(n, taper_port(taper_in1, "o1"))
                        [] n = "in2" -> add_port(n, taper_port(taper_in2, "o1"))
                        [] n = "out1" -> add_port(n, taper_port(taper_out1, "o2"))
                        [] n = "out2" -> add_port(n, taper_port(taper_out2, "o2"))],
         info |-> [width_mmi |-> width_mmi, length_mmi |-> length_mmi,
                   input_width |-> input_width, output_width |-> output_width,
                   taper_length |-> taper_length, gap_mmi |-> gap_mmi]]

-----------------------------------------------------------------------------
(* test_circuit_mmi                                                        *)

\* c << mmi_component: a reference to a whole component, placed at the origin
component_ref(component) == [component |-> component, origin |-> <<0, 0>>]

\* mmi.ports[pname] of a placed component reference
ref_port(ref, pname) ==
    [ref.component.ports[pname] EXCEPT
        !.center = <<@[1] + ref.origin[1], @[2] + ref.origin[2]>>]

\* c << gc(): grating_coupler_elliptical_te placed at the origin; its single
\* optical port o1 sits at the reference's origin and faces left (180).
gc_ref == [mirror |-> FALSE, origin |-> <<0, 0>>]

\* ref.mirror(p1=(0, 0), p2=(0, 1)): reflection in the vertical axis x = 0
mirror(ref) == [ref EXCEPT !.mirror = ~@, !.origin = <<-@[1], @[2]>>]

\* gc.ports["o1"]
gc_port(ref) ==
    [name |-> "o1", center |-> ref.origin, width |-> Centi(50),
     orientation |-> IF ref.mirror THEN 0 ELSE 180, layer |-> <<1, 0>>]

\* gf.cross_section.strip(width=0.5, layer=(1, 0))
xs_sc == [width |-> Centi(50), layer |-> <<1, 0>>]

\* gf.routing.route_single(component=c, port1, port2, radius, cross_section):
\* the request handed to the router
route_single(port1, port2, radius, cross_section) ==
    [port1 |-> port1, port2 |-> port2, radius |-> radius,
     cross_section |-> cross_section]

\* A slip in line 76: the MMI moved up by the whole fibre pitch.
mmi_offset_whole_pitch(fiber_pitch) == <<0, fiber_pitch>>

\* The translation of the MMI reference (line 76)
mmi_offset(fiber_pitch) == <<0, Half(fiber_pitch)>>

\* A slip in lines 100-101: the two input routes attached to swapped ports.
input_pairing_swapped == <<"in2", "in1">>

\* The MMI ports that route1 and route2 attach to (lines 100-101)
input_pairing == <<"in1", "in2">>

test_circuit_mmi(mmi_component, fiber_pitch) ==
    LET mmi_i == move(component_ref(mmi_component), mmi_offset(fiber_pitch))
        gc1 == move(mirror(gc_ref), <<-200 * Unit, 0>>)
        gc2 == move(mirror(gc_ref), <<-200 * Unit, fiber_pitch>>)
        gc3 == move(gc_ref, <<200 * Unit, 0>>)
        gc4 == move(gc_ref, <<200 * Unit, fiber_pitch>>)
        route1 == route_single(gc_port(gc1), ref_port(mmi_i, input_pairing[1]),
                               10 * Unit, xs_sc)
        route2 == route_single(gc_port(gc2), ref_port(mmi_i, input_pairing[2]),
                               10 * Unit, xs_sc)
        r_out1 == route_single(ref_port(mmi_i, "out1"), gc_port(gc3),
                               10 * Unit, xs_sc)
        r_out2 == route_single(ref_port(mmi_i, "out2"), gc_port(gc4),
                               10 * Unit, xs_sc)
    IN  [name |-> "mmi_test_circuit", fiber_pitch |-> fiber_pitch,
         mmi |-> mmi_i,
         gc1 |-> gc1, gc2 |-> gc2, gc3 |-> gc3, gc4 |-> gc4,
         routes |-> <<route1, route2, r_out1, r_out2>>]

-----------------------------------------------------------------------------
(* generate_doe_gds: helpers                                               *)

\* A slip in lines 113-114: the grid rounded up instead of truncated.
IntSqrtRoundedUp(n) ==
    CHOOSE k \in 0..n : k * k >= n /\ (k = 0 \/ (k - 1) * (k - 1) < n)

\* int(np.sqrt(n)) for n >= 0: the square root truncated towards zero
IntSqrt(n) ==
    CHOOSE k \in 0..n : k * k <= n /\ (k + 1) * (k + 1) > n

\* np.linspace(start, stop, num): num evenly spaced samples, both ends
\* included; for num = 1 only start; for num = 0 the empty list
linspace(start, stop, num) ==
    [j \in 1..num |->
        IF num = 1 THEN start
        ELSE start + ((j - 1) * (stop - start)) \div (num - 1)]

\* f"{v:.2f}": v rounded to hundredths (ties to even), given as the number of
\* hundredths, which stands for the digits printed
Format2f(v) ==
    LET q == (v * 100) \div Unit
        r == (v * 100) % Unit
    IN  IF 2 * r < Unit THEN q
        ELSE IF 2 * r > Unit THEN q + 1
        ELSE IF q % 2 = 0 THEN q ELSE q + 1

\* A slip in line 119: the two values in each other's place in the name.
fn_swapped(w, L) == <<Format2f(L), Format2f(w)>>

\* fn = f"mmi_w{w:.2f}_L{L:.2f}.gds": the pair of printed values stands for
\* the file name
fn(w, L) == <<Format2f(w), Format2f(L)>>

\* os.path.join(output_dir, fn)
join(dir, name) == <<dir, name>>

\* A slip in line 112: makedirs called without exist_ok.
exist_ok_omitted == FALSE

\* The exist_ok argument of line 112
exist_ok == TRUE

\* os.makedirs(path, exist_ok): the directories afterwards and the exception
makedirs(ds, path, ok) ==
    IF path \in ds
    THEN [dirs |-> ds, exc |-> IF ok THEN "none" ELSE "FileExistsError"]
    ELSE [dirs |-> ds \cup {path}, exc |-> "none"]

-----------------------------------------------------------------------------
(* State                                                                   *)

VARIABLES
    mmi_status,   \* "none", "returned" or "raised": outcome of the last mmi_2x2
    mmi,          \* the component mmi_2x2 returned ({} when none)
    tc,           \* the component test_circuit_mmi returned ({} when none)
    pc,           \* generate_doe_gds: "idle", "loop", "done" or "raised"
    output_dir,   \* its arguments
    n_grid,
    width_list,   \* lines 113-114
    length_list,
    wi,           \* position of the two for loops (1-based indices)
    li,
    i,            \* line 115
    printed,      \* paths of the "Wrote" lines printed by this call, in order
    total,        \* the number printed by "Total designs:" ({} when not printed)
    exc,          \* the exception that ended this call ("none" when none)
    written,      \* paths written by this call
    dirs,         \* file system: directories
    files,        \* file system: path -> cell stored in the file
    prev,         \* the previous call: its arguments, outcome and file names
    runs          \* calls of generate_doe_gds started

cell_vars == <<mmi_status, mmi, tc>>
doe_vars == <<pc, output_dir, n_grid, width_list, length_list, wi, li, i,
              printed, total, exc, written, dirs, files, prev, runs>>
vars == <<cell_vars, doe_vars>>

\* The paths of the files in directory d
NamesIn(d) == {p \in DOMAIN files : p[1] = d}

Init ==
    /\ mmi_status = "none"
    /\ mmi = {}
    /\ tc = {}
    /\ pc = "idle"
    /\ output_dir = "mmi_doe_gds"
    /\ n_grid = 9
    /\ width_list = <<>>
    /\ length_list = <<>>
    /\ wi = 1
    /\ li = 1
    /\ i = 0
    /\ printed = <<>>
    /\ total = {}
    /\ exc = "none"
    /\ written = {}
    /\ dirs = {}
    /\ files = [p \in {} |-> {}]
    /\ prev = {}
    /\ runs = 0

-----------------------------------------------------------------------------
(* Actions: the cell and the test circuit                                  *)

\* mmi_2x2(...) returns. With a non-positive taper width the script itself
\* raises nothing (lines 29-63 hold no check); whether the geometry library
\* accepts the width is outside the script, so both outcomes are possible.
Mmi2x2Returns ==
    \E width_mmi \in WidthMmiValues, length_mmi \in LengthMmiValues,
       input_width \in InputWidthValues, output_width \in OutputWidthValues,
       taper_length \in TaperLengthValues, gap_mmi \in GapMmiValues,
       layer \in LayerValues :
        /\ mmi' = {mmi_2x2(width_mmi, length_mmi, input_width, output_width,
                           taper_length, gap_mmi, layer)}
        /\ mmi_status' = "returned"
        /\ tc' = {}
        /\ UNCHANGED doe_vars

\* mmi_2x2(...) ends with an exception of the geometry library, which the
\* script does not catch.
Mmi2x2Raises ==
    \E width_mmi \in WidthMmiValues, gap_mmi \in GapMmiValues :
        /\ width_taper(width_mmi, gap_mmi) <= 0
        /\ mmi' = {}
        /\ mmi_status' = "raised"
        /\ tc' = {}
        /\ UNCHANGED doe_vars

\* tc = test_circuit_mmi(mmi, fiber_pitch)
TestCircuitMmi ==
    \E fiber_pitch \in FiberPitchValues, c \in mmi :
        /\ tc' = {test_circuit_mmi(c, fiber_pitch)}
        /\ UNCHANGED <<mmi_status, mmi>>
        /\ UNCHANGED doe_vars

-----------------------------------------------------------------------------
(* Actions: generate_doe_gds                                               *)

\* The call and lines 112-115.
DoeStart ==
    \E dir \in OutputDirValues, n \in NGridValues :
        LET made == makedirs(dirs, dir, exist_ok) IN
        /\ pc \in {"idle", "done", "raised"}
        /\ runs < MaxRuns
        /\ runs' = runs + 1
        /\ prev' = IF pc = "idle" THEN {}
                   ELSE {[dir |-> output_dir, n_grid |-> n_grid,
                          completed |-> (pc = "done"),
                          names |-> NamesIn(output_dir)]}
        /\ output_dir' = dir
        /\ n_grid' = n
        /\ dirs' = made.dirs
        /\ exc' = made.exc
        /\ printed' = <<>>
        /\ total' = {}
        /\ written' = {}
        /\ i' = 0
        /\ wi' = 1
        /\ li' = 1
        /\ IF made.exc = "none"
           THEN /\ width_list' = linspace(2 * Unit, 4 * Unit, IntSqrt(n))
                /\ length_list' = linspace(20 * Unit, 40 * Unit, IntSqrt(n))
                /\ pc' = "loop"
           ELSE /\ width_list' = <<>>
                /\ length_list' = <<>>
                /\ pc' = "raised"
        /\ UNCHANGED <<files>>
        /\ UNCHANGED cell_vars

\* The step of the nested for loops to the next grid point.
NextIndices ==
    IF li < Len(length_list)
    THEN /\ li' = li + 1
         /\ wi' = wi
    ELSE /\ li' = 1
         /\ wi' = wi + 1

\* One pass of the loop body, lines 118-123.
DoeIter ==
    /\ pc = "loop"
    /\ wi <= Len(width_list)
    /\ LET w == width_list[wi]
           L == length_list[li]
           comp == mmi_2x2(w, L, default_input_width, default_output_width,
                           default_taper_length, default_gap_mmi, default_layer)
           path == join(output_dir, fn(w, L))
       IN  /\ files' = [p \in DOMAIN files \cup {path} |->
                          IF p = path THEN comp ELSE files[p]]
           /\ written' = written \cup {path}
           /\ printed' = Append(printed, path)
    /\ i' = i + 1
    /\ NextIndices
    /\ UNCHANGED <<pc, output_dir, n_grid, width_list, length_list, total,
                   exc, dirs, prev, runs>>
    /\ UNCHANGED cell_vars

\* A slip: the failure of one grid point caught, the sweep going on with the
\* next point.
DoeRaiseCaught ==
    /\ pc = "loop"
    /\ wi <= Len(width_list)
    /\ exc' = "external"
    /\ NextIndices
    /\ UNCHANGED <<pc, output_dir, n_grid, width_list, length_list, i, printed,
                   total, written, dirs, files, prev, runs>>
    /\ UNCHANGED cell_vars

\* Building or writing the current grid point fails (lines 118, 121): nothing
\* in lines 116-124 catches the exception, which ends the call.
DoeRaise ==
    /\ pc = "loop"
    /\ wi <= Len(width_list)
    /\ exc' = "external"
    /\ pc' = "raised"
    /\ UNCHANGED <<output_dir, n_grid, width_list, length_list, wi, li, i,
                   printed, total, written, dirs, files, prev, runs>>
    /\ UNCHANGED cell_vars

\* Line 124, after the loops.
DoeEnd ==
    /\ pc = "loop"
    /\ wi > Len(width_list)
    /\ total' = {i}
    /\ pc' = "done"
    /\ UNCHANGED <<output_dir, n_grid, width_list, length_list, wi, li, i,
                   printed, exc, written, dirs, files, prev, runs>>
    /\ UNCHANGED cell_vars

-----------------------------------------------------------------------------
(* Specifications                                                          *)

Next == Mmi2x2Returns \/ Mmi2x2Raises \/ TestCircuitMmi

Spec == Init /\ [][Next]_vars

NextDoe == DoeStart \/ DoeIter \/ DoeRaise \/ DoeEnd

SpecDoe == Init /\ [][NextDoe]_vars

-----------------------------------------------------------------------------
(* Properties of the cell and of the test circuit (checked under Spec)     *)

PortNames == {"in1", "in2", "out1", "out2"}

\* C1: every component mmi_2x2 returns has exactly the ports in1, in2, out1,
\* out2; with width_taper = (width_mmi - gap_mmi)/2 and pitch = gap_mmi +
\* width_taper, in1 = (0, -pitch/2), in2 = (0, +pitch/2), out1 = (length_mmi +
\* 2*taper_length, -pitch/2), out2 = (length_mmi + 2*taper_length, +pitch/2);
\* width 3.0 and gap 0.20 give width_taper 1.4, pitch 1.6, in1.y = -0.8 and
\* in2.y = +0.8.  (Stated on doubled values: twice width_taper is w - g, twice
\* pitch is 2g + (w - g), four times pitch/2 is twice pitch.)
C1_PortsAndPositions ==
    \A c \in mmi :
        LET w == c.info.width_mmi
            g == c.info.gap_mmi
            len == c.info.length_mmi
            tl == c.info.taper_length
            width_taper2 == w - g
            pitch2 == 2 * g + width_taper2
        IN  /\ DOMAIN c.ports = PortNames
            /\ \A n \in PortNames : c.ports[n].name = n
            /\ c.ports["in1"].center[1] = 0
            /\ c.ports["in2"].center[1] = 0
            /\ c.ports["out1"].center[1] = len + 2 * tl
            /\ c.ports["out2"].center[1] = len + 2 * tl
            /\ 4 * c.ports["in1"].center[2] = -pitch2
            /\ 4 * c.ports["in2"].center[2] = pitch2
            /\ 4 * c.ports["out1"].center[2] = -pitch2
            /\ 4 * c.ports["out2"].center[2] = pitch2
            /\ (w = Centi(300) /\ g = Centi(20)) =>
                  /\ c.taper_in1.width2 = Centi(140)
                  /\ c.ports["in2"].center[2] - c.ports["in1"].center[2]
                        = Centi(160)
                  /\ c.ports["in1"].center[2] = -Centi(80)
                  /\ c.ports["in2"].center[2] = Centi(80)

\* C1 witness: mmi_2x2(width_mmi=3.0, length_mmi=30.0, gap_mmi=0.20) has
\* returned.
C1_Witness ==
    /\ mmi_status = "returned"
    /\ \E c \in mmi : /\ c.info.width_mmi = Centi(300)
                      /\ c.info.length_mmi = Centi(3000)
                      /\ c.info.gap_mmi = Centi(20)
                      /\ c.ports["in1"].center = <<0, -Centi(80)>>

\* C3: when 0 < gap_mmi < width_mmi, width_taper > 0 and the two arms at each
\* end of the body exactly fill its width: the wide ends of the arms meet the
\* body (x = taper_length on the input side, x = taper_length + length_mmi on
\* the output side), their outer edges lie at y = -width_mmi/2 and
\* y = +width_mmi/2, the edges of the body rectangle, which is centred on
\* y = 0, and their inner edges are gap_mmi apart.  (An arm of width a centred
\* at y has its edges at y - a/2 and y + a/2; stated on doubled values.)
C3_ArmsFillBody ==
    \A c \in mmi :
        LET w == c.info.width_mmi
            g == c.info.gap_mmi
            len == c.info.length_mmi
            tl == c.info.taper_length
            in1 == c.taper_in1
            in2 == c.taper_in2
            out1 == c.taper_out1
            out2 == c.taper_out2
        IN  (0 < g /\ g < w) =>
              /\ in1.width2 > 0 /\ in2.width2 > 0
              /\ out1.width1 > 0 /\ out2.width1 > 0
              \* the body rectangle
              /\ c.mmi_rect.origin[1] = tl
              /\ c.mmi_rect.size = <<len, w>>
              /\ 2 * c.mmi_rect.origin[2] = -w
              \* the wide ends of the arms touch the body
              /\ in1.origin[1] + in1.length = tl
              /\ in2.origin[1] + in2.length = tl
              /\ out1.origin[1] = tl + len
              /\ out2.origin[1] = tl + len
              \* outer edges
              /\ 2 * in1.origin[2] - in1.width2 = -w
              /\ 2 * in2.origin[2] + in2.width2 = w
              /\ 2 * out1.origin[2] - out1.width1 = -w
              /\ 2 * out2.origin[2] + out2.width1 = w
              \* inner edges, gap_mmi apart
              /\ (2 * in2.origin[2] - in2.width2)
                   - (2 * in1.origin[2] + in1.width2) = 2 * g
              /\ (2 * out2.origin[2] - out2.width1)
                   - (2 * out1.origin[2] + out1.width1) = 2 * g

\* C3 witness: a cell with a non-default width and gap, 0 < gap < width, has
\* been built.
C3_Witness ==
    \E c \in mmi : /\ c.info.gap_mmi = Centi(40)
                   /\ c.info.width_mmi = Centi(200)
                   /\ c.taper_in1.width2 = Centi(80)

\* The y coordinate of a port
PortY(p) == p.center[2]

\* C5: test_circuit_mmi puts the mirrored input couplers at (-200, 0) and
\* (-200, fiber_pitch), the unmirrored output couplers at (200, 0) and
\* (200, fiber_pitch), moves the MMI by (0, fiber_pitch/2), and the midpoints
\* of in1/in2 and of out1/out2 are at y = fiber_pitch/2, halfway between the
\* coupler rows y = 0 and y = fiber_pitch.
C5_CircuitPlacement ==
    \A t \in tc :
        LET fp == t.fiber_pitch IN
        /\ t.gc1 = [mirror |-> TRUE, origin |-> <<-200 * Unit, 0>>]
        /\ t.gc2 = [mirror |-> TRUE, origin |-> <<-200 * Unit, fp>>]
        /\ t.gc3 = [mirror |-> FALSE, origin |-> <<200 * Unit, 0>>]
        /\ t.gc4 = [mirror |-> FALSE, origin |-> <<200 * Unit, fp>>]
        /\ t.mmi.origin[1] = 0
        /\ 2 * t.mmi.origin[2] = fp
        /\ PortY(ref_port(t.mmi, "in1")) + PortY(ref_port(t.mmi, "in2")) = fp
        /\ PortY(ref_port(t.mmi, "out1")) + PortY(ref_port(t.mmi, "out2")) = fp
        /\ PortY(gc_port(t.gc1)) + PortY(gc_port(t.gc2)) = fp
        /\ PortY(gc_port(t.gc3)) + PortY(gc_port(t.gc4)) = fp

\* C5 witness: a test circuit around a non-default MMI with the default fibre
\* pitch of 127.
C5_Witness ==
    \E t \in tc : /\ t.fiber_pitch = Centi(12700)
                  /\ t.mmi.component.info.width_mmi = Centi(200)
                  /\ t.mmi.origin = <<0, Centi(6350)>>

\* The four route requests of a test circuit: radius 10, cross-section of
\* width 0.5 on layer (1, 0), gc1-in1, gc2-in2, out1-gc3, out2-gc4.
RoutesAsSpecified(t) ==
    /\ Len(t.routes) = 4
    /\ \A r \in 1..4 : /\ t.routes[r].radius = 10 * Unit
                       /\ t.routes[r].cross_section
                             = [width |-> Centi(50), layer |-> <<1, 0>>]
    /\ t.routes[1].port1 = gc_port(t.gc1)
    /\ t.routes[1].port2 = ref_port(t.mmi, "in1")
    /\ t.routes[2].port1 = gc_port(t.gc2)
    /\ t.routes[2].port2 = ref_port(t.mmi, "in2")
    /\ t.routes[3].port1 = ref_port(t.mmi, "out1")
    /\ t.routes[3].port2 = gc_port(t.gc3)
    /\ t.routes[4].port1 = ref_port(t.mmi, "out2")
    /\ t.routes[4].port2 = gc_port(t.gc4)
    /\ t.routes[1].port2.name = "in1" /\ t.routes[2].port2.name = "in2"
    /\ t.routes[3].port1.name = "out1" /\ t.routes[4].port1.name = "out2"

\* Two routes keep the vertical order: the route that starts lower ends lower.
SameOrder(r, s) ==
    \/ PortY(r.port1) < PortY(s.port1) /\ PortY(r.port2) < PortY(s.port2)
    \/ PortY(r.port1) > PortY(s.port1) /\ PortY(r.port2) > PortY(s.port2)

\* Twice the pitch of the MMI of a test circuit
Pitch2(t) ==
    2 * t.mmi.component.info.gap_mmi
      + (t.mmi.component.info.width_mmi - t.mmi.component.info.gap_mmi)

\* A cell whose parameters satisfy 0 < gap_mmi < width_mmi
ProperCell(c) == 0 < c.info.gap_mmi /\ c.info.gap_mmi < c.info.width_mmi

\* C9 as stated: four routes as specified, and for every MMI with pitch > 0
\* the pairing keeps the vertical order on both sides, whatever fiber_pitch.
\* (Read on the cells with 0 < gap_mmi < width_mmi only, so that a violation
\* never rests on a degenerate cell.)
C9_Original ==
    \A t \in tc :
        ProperCell(t.mmi.component) =>
            /\ RoutesAsSpecified(t)
            /\ Pitch2(t) > 0 => /\ SameOrder(t.routes[1], t.routes[2])
                                /\ SameOrder(t.routes[3], t.routes[4])

\* C9 amended: four routes as specified, and for every MMI with pitch > 0 and
\* every fiber_pitch > 0 the pairing keeps the vertical order on both sides:
\* gc1 (y = 0) is below gc2 (y = fiber_pitch), in1 below in2, out1 below out2,
\* gc3 below gc4.
C9_RoutesKeepOrder ==
    \A t \in tc :
        /\ RoutesAsSpecified(t)
        /\ (Pitch2(t) > 0 /\ t.fiber_pitch > 0) =>
              /\ SameOrder(t.routes[1], t.routes[2])
              /\ SameOrder(t.routes[3], t.routes[4])
              /\ PortY(t.routes[1].port1) < PortY(t.routes[2].port1)
              /\ PortY(t.routes[3].port2) < PortY(t.routes[4].port2)

\* C9 witness: a test circuit with a positive fibre pitch and four routes.
C9_Witness ==
    \E t \in tc : /\ t.fiber_pitch = Centi(25000)
                  /\ Pitch2(t) > 0
                  /\ Len(t.routes) = 4
                  /\ PortY(t.routes[2].port2) > PortY(t.routes[1].port2)

C10_PortWidthsOnly ==
    \A c \in mmi :
        /\ c.ports["in1"].width = c.info.input_width
        /\ c.ports["in2"].width = c.info.input_width
        /\ c.ports["out1"].width = c.info.output_width
        /\ c.ports["out2"].width = c.info.output_width

-----------------------------------------------------------------------------
(* Properties of the DOE sweep (checked under SpecDoe)                     *)

\* The number of values on each axis in the current call
GridSide == Len(width_list)

\* c hundredths is v rounded to two decimals
IsTwoDecimals(v, c) ==
    /\ 2 * (100 * v - c * Unit) <= Unit
    /\ 2 * (c * Unit - 100 * v) <= Unit

\* The a-th of num values linearly spaced from lo to hi is v
IsLinearlySpaced(v, a, num, lo, hi) ==
    IF num = 1 THEN v = lo ELSE (num - 1) * (v - lo) = (a - 1) * (hi - lo)

\* Path p names grid point (a, b) of the current call
NamesPoint(p, a, b) ==
    /\ p[1] = output_dir
    /\ IsTwoDecimals(width_list[a], p[2][1])
    /\ IsTwoDecimals(length_list[b], p[2][2])

\* The a-index and b-index of the j-th grid point in nested-loop order
\* (width outer, length inner), j counted from 1
OuterIndex(j) == ((j - 1) \div GridSide) + 1
InnerIndex(j) == ((j - 1) % GridSide) + 1

C7_RerunIdempotent ==
    \A q \in prev :
        (q.completed /\ q.dir = output_dir /\ q.n_grid = n_grid) =>
            /\ exc # "FileExistsError"
            /\ output_dir \in dirs
            /\ q.names \subseteq NamesIn(output_dir)
            /\ pc = "done" =>
                  /\ NamesIn(output_dir) = q.names
                  /\ written \subseteq q.names
                  /\ Cardinality(written) = GridSide * GridSide

\* C7 witness: the sweep with n_grid = 9 completed twice in the same
\* directory.
C7_Witness ==
    /\ pc = "done"
    /\ n_grid = 9
    /\ Cardinality(written) = 9
    /\ \E q \in prev : /\ q.completed
                       /\ q.dir = output_dir
                       /\ q.n_grid = 9
                       /\ q.names = written

=============================================================================
